---- MODULE Spec2Model ----
(***************************************************************************)
(* Model of tools/validate_training_time.py: the skill-training-time       *)
(* calculator with a depleting booster (validate_plan), its single-skill   *)
(* variant (validate_single_skill) and the helpers both call; and of        *)
(* tools/validate_evemon_export.py: the validator of an exported plan      *)
(* (validate_entry and the loop of main).                                  *)
(*                                                                         *)
(* Python floats are modelled as exact rationals extended with the IEEE    *)
(* values +inf, -inf and NaN; rounding error is outside the model.         *)
(***************************************************************************)
EXTENDS Integers, Sequences, FiniteSets, TLC

(***************************************************************************)
(* Extended rationals: [k, n, d] with k in {"fin","inf","ninf","nan"};     *)
(* a finite value is n/d in lowest terms with d > 0.                       *)
(***************************************************************************)
Abs(x) == IF x < 0 THEN -x ELSE x

RECURSIVE GCD(_, _)
GCD(a, b) == IF b = 0 THEN a ELSE GCD(b, a % b)

Fin(n, d) ==
    LET s == IF d < 0 THEN -1 ELSE 1
        g == GCD(Abs(n), Abs(d))
    IN  [k |-> "fin", n |-> (s * n) \div g, d |-> (s * d) \div g]

Int2F(i) == [k |-> "fin", n |-> i, d |-> 1]

Zero == Int2F(0)

Inf == [k |-> "inf", n |-> 0, d |-> 1]

NInf == [k |-> "ninf", n |-> 0, d |-> 1]

NaN == [k |-> "nan", n |-> 0, d |-> 1]

IsFinite(x) == x.k = "fin"

\* sign of a value that is not NaN: -1, 0 or 1
Sign(x) ==
    CASE x.k = "inf" -> 1
      [] x.k = "ninf" -> -1
      [] OTHER -> IF x.n > 0 THEN 1 ELSE IF x.n < 0 THEN -1 ELSE 0

FNeg(x) ==
    CASE x.k = "fin" -> [k |-> "fin", n |-> -x.n, d |-> x.d]
      [] x.k = "inf" -> NInf
      [] x.k = "ninf" -> Inf
      [] OTHER -> NaN

\* abs(x)
FAbs(x) ==
    CASE x.k = "fin" -> [k |-> "fin", n |-> Abs(x.n), d |-> x.d]
      [] x.k = "nan" -> NaN
      [] OTHER -> Inf

FAdd(x, y) ==
    CASE x.k = "nan" \/ y.k = "nan" -> NaN
      [] x.k = "fin" /\ y.k = "fin" ->
            LET g == GCD(x.d, y.d)
            IN  Fin(x.n * (y.d \div g) + y.n * (x.d \div g), (x.d \div g) * y.d)
      [] x.k = "fin" -> y
      [] y.k = "fin" -> x
      [] OTHER -> IF x.k = y.k THEN x ELSE NaN

FSub(x, y) == FAdd(x, FNeg(y))

FMul(x, y) ==
    CASE x.k = "nan" \/ y.k = "nan" -> NaN
      [] x.k = "fin" /\ y.k = "fin" ->
            LET g1 == GCD(Abs(x.n), y.d)
                g2 == GCD(Abs(y.n), x.d)
            IN  Fin((x.n \div g1) * (y.n \div g2), (x.d \div g2) * (y.d \div g1))
      [] OTHER ->
            LET s == Sign(x) * Sign(y)
            IN  IF s = 0 THEN NaN ELSE IF s > 0 THEN Inf ELSE NInf

\* x / y for finite x and finite y # 0
FDiv(x, y) == FMul(x, Fin(y.d, y.n))

\* IEEE comparisons: every comparison with NaN is false
FLt(x, y) ==
    CASE x.k = "nan" \/ y.k = "nan" -> FALSE
      [] x.k = "fin" /\ y.k = "fin" -> Sign(FSub(x, y)) < 0
      [] x.k = "fin" -> y.k = "inf"
      [] y.k = "fin" -> x.k = "ninf"
      [] OTHER -> x.k = "ninf" /\ y.k = "inf"

FEq(x, y) == x.k # "nan" /\ y.k # "nan" /\ x = y

FLe(x, y) == FLt(x, y) \/ FEq(x, y)

FGt(x, y) == FLt(y, x)

FGe(x, y) == FLe(y, x)


(***************************************************************************)
(* Unbound Python names (a local before its first assignment, a value a    *)
(* function never computes) are the marker Unset.                          *)
(***************************************************************************)
Unset == [k |-> "unset", n |-> 0, d |-> 1]

\* int(x) for the quotient a / b with b > 0: truncation toward zero
TruncDiv(a, b) == IF a >= 0 THEN a \div b ELSE -((-a) \div b)

(***************************************************************************)
(* class Attributes                                                        *)
(***************************************************************************)
AttrNames == {"intelligence", "perception", "charisma", "willpower", "memory"}

effective_intelligence(a) == a.intelligence + a.int_implant + a.booster_bonus

effective_perception(a) == a.perception + a.per_implant + a.booster_bonus

effective_charisma(a) == a.charisma + a.cha_implant + a.booster_bonus

effective_willpower(a) == a.willpower + a.wil_implant + a.booster_bonus

effective_memory(a) == a.memory + a.mem_implant + a.booster_bonus

\* the dict both validators build from the effective_* properties
attr_map(a) ==
    [intelligence |-> effective_intelligence(a),
     perception |-> effective_perception(a),
     charisma |-> effective_charisma(a),
     willpower |-> effective_willpower(a),
     memory |-> effective_memory(a)]

\* Attributes(<every field of a but booster_bonus>, booster_bonus=bonus)
make_boosted_attrs(a, bonus) == [a EXCEPT !.booster_bonus = bonus]

(***************************************************************************)
(* class Skill                                                             *)
(***************************************************************************)
\* int(250 * rank * SQRT32 ** (level - 1)); the two irrational multipliers
\* are carried to enough digits to give the code's integers for |rank| <= 40
sp_for_level(skill, level) ==
    IF level < 1 \/ level > 5 THEN 0
    ELSE CASE level = 1 -> 250 * skill.rank
           [] level = 2 -> TruncDiv(skill.rank * 14142136, 10000)
           [] level = 3 -> 8000 * skill.rank
           [] level = 4 -> TruncDiv(skill.rank * 45254834, 1000)
           [] level = 5 -> 256000 * skill.rank

RECURSIVE total_sp_at_level(_, _)
total_sp_at_level(skill, level) ==
    IF level < 1 THEN 0
    ELSE total_sp_at_level(skill, level - 1) + sp_for_level(skill, level)

Max(a, b) == IF a >= b THEN a ELSE b

sp_to_train(skill, target_level) ==
    IF target_level <= skill.current_level THEN 0
    ELSE Max(0, total_sp_at_level(skill, target_level)
                - (total_sp_at_level(skill, skill.current_level) + skill.current_sp))

(***************************************************************************)
(* Module-level functions                                                  *)
(***************************************************************************)
\* attr_map[skill.primary_attr] / attr_map[skill.secondary_attr] raise KeyError
KeyErrorRaised(skill) ==
    skill.primary_attr \notin AttrNames \/ skill.secondary_attr \notin AttrNames

calculate_sp_per_hour(a, skill, clone) ==
    LET primary == attr_map(a)[skill.primary_attr]
        secondary == attr_map(a)[skill.secondary_attr]
    IN  IF clone = "omega" THEN primary * 60 + secondary * 30
        ELSE primary * 30 + secondary * 15

\* sp is a float here (line 332 passes one), sp_per_hour an int
calculate_training_time(sp, sp_per_hour) ==
    IF sp_per_hour <= 0 THEN Inf ELSE FDiv(sp, Int2F(sp_per_hour))

\* format_time returns for +inf; int(hours * 3600) raises ValueError on NaN
\* and OverflowError on -inf; every finite value is formatted
format_time_error(hours) ==
    CASE hours.k = "nan" -> "ValueError"
      [] hours.k = "ninf" -> "OverflowError"
      [] OTHER -> "none"

\* the first error a sequence of format_time calls raises, left to right
RECURSIVE first_error(_)
first_error(vals) ==
    IF vals = << >> THEN "none"
    ELSE IF format_time_error(Head(vals)) # "none" THEN format_time_error(Head(vals))
    ELSE first_error(Tail(vals))

\* "total = time" where the code has "total += time"
accumulate_overwrites(total, time) == time

\* total_time_base += time_base, total_time_boosted += time_actual
accumulate(total, time) == FAdd(total, time)

(***************************************************************************)
(* validate_plan, loop body: lines 316-341                                 *)
(***************************************************************************)
\* the guard of line 319 without its test of the remaining hours
booster_applies_ignoring_hours(bonus, remaining) == bonus > 0

booster_applies(bonus, remaining) == bonus > 0 /\ FGt(remaining, Zero)

covers_fully(sp_can_train_boosted, sp) == FGe(sp_can_train_boosted, Int2F(sp))

\* a full-coverage branch that charges the base time: the booster is ignored
full_branch_at_base_rate(sp, rate_boosted, tb, remaining) ==
    [time_base |-> tb, time_actual |-> tb, time_saved |-> Zero,
     booster_remaining |-> FSub(remaining, tb)]

full_branch(sp, rate_boosted, tb, remaining) ==
    LET ta == calculate_training_time(Int2F(sp), rate_boosted)
    IN  [time_base |-> tb, time_actual |-> ta, time_saved |-> FSub(tb, ta),
         booster_remaining |-> FSub(remaining, ta)]

\* a split branch that trains the remainder at the boosted rate
split_branch_remainder_boosted(sp, rate_base, rate_boosted, tb, remaining) ==
    LET sp_remaining == FSub(Int2F(sp), FMul(remaining, Int2F(rate_boosted)))
        ta == FAdd(remaining, calculate_training_time(sp_remaining, rate_boosted))
    IN  [time_base |-> tb, time_actual |-> ta, time_saved |-> FSub(tb, ta),
         booster_remaining |-> Zero]

split_branch(sp, rate_base, rate_boosted, tb, remaining) ==
    LET time_boosted_part == remaining
        sp_trained_boosted == FMul(time_boosted_part, Int2F(rate_boosted))
        sp_remaining == FSub(Int2F(sp), sp_trained_boosted)
        time_normal_part == calculate_training_time(sp_remaining, rate_base)
        ta == FAdd(time_boosted_part, time_normal_part)
    IN  [time_base |-> tb, time_actual |-> ta, time_saved |-> FSub(tb, ta),
         booster_remaining |-> Zero]

no_booster_branch(tb, remaining) ==
    [time_base |-> tb, time_actual |-> tb, time_saved |-> Zero,
     booster_remaining |-> remaining]

item_times(sp, rate_base, rate_boosted, bonus, remaining) ==
    LET tb == calculate_training_time(Int2F(sp), rate_base)
    IN  IF booster_applies(bonus, remaining)
        THEN IF covers_fully(FMul(remaining, Int2F(rate_boosted)), sp)
             THEN full_branch(sp, rate_boosted, tb, remaining)
             ELSE split_branch(sp, rate_base, rate_boosted, tb, remaining)
        ELSE no_booster_branch(tb, remaining)

(***************************************************************************)
(* validate_single_skill: the values it computes and the error it raises   *)
(***************************************************************************)
single_result(a, skill, target_level, bonus, hours, clone) ==
    LET sp == sp_to_train(skill, target_level)
        rate_base == calculate_sp_per_hour(a, skill, clone)
        tbh == calculate_training_time(Int2F(sp), rate_base)
        rate_boosted == calculate_sp_per_hour(make_boosted_attrs(a, bonus), skill, clone)
        split == FGt(hours, Zero) /\ FLt(FMul(hours, Int2F(rate_boosted)), Int2F(sp))
        sp_remaining == FSub(Int2F(sp), FMul(hours, Int2F(rate_boosted)))
        full == calculate_training_time(Int2F(sp), rate_boosted)
        saved == FSub(tbh, full)
    IN  IF KeyErrorRaised(skill)
        THEN [status |-> "raised", error |-> "KeyError", time_base_hours |-> Unset,
              training_time |-> Unset, time_saved |-> Unset]
        ELSE IF bonus <= 0
        THEN [status |-> "ok", error |-> "none", time_base_hours |-> tbh,
              training_time |-> Unset, time_saved |-> Unset]
        ELSE IF split /\ rate_base = 0
        THEN [status |-> "raised", error |-> "ZeroDivisionError",
              time_base_hours |-> tbh, training_time |-> Unset, time_saved |-> Unset]
        ELSE LET total == IF split
                          THEN FAdd(hours, FDiv(sp_remaining, Int2F(rate_base)))
                          ELSE full
                 err == IF format_time_error(saved) # "none"
                        THEN format_time_error(saved)
                        ELSE IF tbh = Zero THEN "ZeroDivisionError" ELSE "none"
             IN  [status |-> IF err = "none" THEN "ok" ELSE "raised", error |-> err,
                  time_base_hours |-> tbh, training_time |-> total,
                  time_saved |-> saved]

\* a slip of lines 348-349: the level is set, the partial quantity is kept
mark_trained_keeps_sp(skill, target_level) ==
    [skill EXCEPT !.current_level = target_level]

\* validate_plan, lines 347-349: "Update skill state for next iteration"
mark_trained(skill, target_level) ==
    [skill EXCEPT !.current_level = target_level, !.current_sp = 0]

(***************************************************************************)
(* Inputs                                                                  *)
(***************************************************************************)
MaxPlanLen == 2

SkillIds == {1, 2}

\* the dataclass defaults of Attributes
DefaultAttrs ==
    [intelligence |-> 17, perception |-> 17, charisma |-> 17, willpower |-> 17,
     memory |-> 17, int_implant |-> 0, per_implant |-> 0, cha_implant |-> 0,
     wil_implant |-> 0, mem_implant |-> 0, booster_bonus |-> 0]

\* The choices are listed from the ordinary to the degenerate.
AttrChoices ==
    <<[DefaultAttrs EXCEPT !.perception = 1, !.willpower = 0],
      [DefaultAttrs EXCEPT !.perception = 0, !.willpower = -1, !.per_implant = 1,
                           !.wil_implant = 1, !.booster_bonus = 2],
      [DefaultAttrs EXCEPT !.perception = 0, !.willpower = 0],
      [DefaultAttrs EXCEPT !.perception = -1, !.willpower = -1],
      [DefaultAttrs EXCEPT !.perception = -2, !.willpower = -1]>>

MkSkill(name, rank, primary, secondary, level, sp) ==
    [name |-> name, rank |-> rank, primary_attr |-> primary,
     secondary_attr |-> secondary, current_level |-> level, current_sp |-> sp]

DefaultSkill == MkSkill("Gunnery", 3, "perception", "willpower", 0, 0)

SkillChoices ==
    <<DefaultSkill,
      MkSkill("Sharpshooter", 1, "perception", "willpower", 1, 1000),
      MkSkill("Overtrained", 1, "perception", "willpower", 1, 2000),
      MkSkill("Rankless", 0, "perception", "willpower", 0, 0),
      MkSkill("Lucky", 1, "luck", "willpower", 0, 0)>>

TargetLevels == {1, 2, 6}

BoosterBonusChoices == <<1, 0>>

BoosterHoursChoices == <<Int2F(3), Int2F(5), Int2F(0)>>

CloneStates == <<"omega", "alpha">>

Plans == UNION {[1..n -> SkillIds \X TargetLevels] : n \in 0..MaxPlanLen}

UsedIds(p) == {p[i][1] : i \in DOMAIN p}

(***************************************************************************)
(* validate_evemon_export.py: the functions                                *)
(***************************************************************************)
\* SkillEntry, with the fields main and validate_entry read; the values are
\* the floats parse_csv obtained with float(), which accepts nan and inf
MkEntry(name, primary, secondary, sp, omega, rate, time, old, saved) ==
    [name |-> name, primary_value |-> primary, secondary_value |-> secondary,
     sp_to_train |-> sp, sp_per_hour_omega |-> omega, training_rate |-> rate,
     training_time_hours |-> time, old_training_time_hours |-> old,
     time_saved_hours |-> saved]

calculate_expected_sp_per_hour(primary, secondary) ==
    FAdd(FMul(primary, Int2F(60)), FMul(secondary, Int2F(30)))

calculate_expected_training_time(sp, sp_per_hour_omega, training_rate) ==
    LET actual_sp_per_hour == FMul(sp_per_hour_omega, training_rate)
    IN  IF FLe(actual_sp_per_hour, Zero) THEN Inf
        ELSE CASE actual_sp_per_hour.k = "fin" -> FDiv(Int2F(sp), actual_sp_per_hour)
               [] actual_sp_per_hour.k = "inf" -> Zero
               [] OTHER -> NaN

\* format_time of the export validator: "none" when it returns a string, or
\* the exception int(hours * 3600) raises; inf and negative values are
\* handled by lines 54-57, NaN passes both tests
export_format_time_error(hours) ==
    IF hours.k = "nan" THEN "ValueError" ELSE "none"

\* the default of validate_entry's parameter: 0.01
tolerance == Fin(1, 100)

\* validate_entry: the list of mismatches of one entry
validate_entry(entry) ==
    LET expected_sp_hour ==
            calculate_expected_sp_per_hour(entry.primary_value, entry.secondary_value)
        sp_hour_diff == FAbs(FSub(entry.sp_per_hour_omega, expected_sp_hour))
        expected_time ==
            calculate_expected_training_time(entry.sp_to_train, entry.sp_per_hour_omega,
                                             entry.training_rate)
        time_diff == FAbs(FSub(entry.training_time_hours, expected_time))
        expected_saved ==
            FSub(entry.old_training_time_hours, entry.training_time_hours)
        saved_diff == FAbs(FSub(entry.time_saved_hours, expected_saved))
    IN  (IF FGt(sp_hour_diff, Int2F(1)) THEN <<"SP/hour mismatch">> ELSE << >>)
        \o (IF FGt(time_diff, tolerance) THEN <<"Training time mismatch">> ELSE << >>)
        \o (IF FGt(entry.old_training_time_hours, Zero) /\ FGt(saved_diff, tolerance)
            THEN <<"Time saved mismatch">> ELSE << >>)

\* the first exception of a sequence of format_time calls, "none" if none
RECURSIVE first_export_error(_)
first_export_error(vals) ==
    IF vals = << >> THEN "none"
    ELSE IF export_format_time_error(Head(vals)) # "none"
         THEN export_format_time_error(Head(vals))
         ELSE first_export_error(Tail(vals))

\* main, lines 220-221: if errors: total_errors += len(errors)
count_errors(total, errors) == total + Len(errors)

MaxEntries == 3

\* The rows of an export, from the ordinary to the degenerate: a correct
\* row, a correct Alpha row, rows with one, two and three mismatches, and
\* rows whose training time is not finite.
EntryChoices ==
    <<MkEntry("Gunnery", Int2F(1), Int2F(0), 750, Int2F(60), Int2F(1),
              Fin(25, 2), Fin(25, 2), Zero),
      MkEntry("Gunnery Alpha", Int2F(1), Int2F(0), 750, Int2F(60), Fin(1, 2),
              Int2F(25), Int2F(25), Zero),
      MkEntry("Saved off", Int2F(1), Int2F(0), 750, Int2F(60), Int2F(1),
              Fin(25, 2), Int2F(15), Zero),
      MkEntry("All off", Int2F(1), Int2F(0), 750, Int2F(90), Int2F(1),
              Fin(25, 2), Int2F(15), Zero),
      MkEntry("Stuck", Zero, Zero, 750, Zero, Int2F(1), Inf, Zero, Zero),
      MkEntry("Negative", Int2F(1), Int2F(0), 750, Int2F(60), Int2F(1),
              NInf, Zero, Zero),
      MkEntry("Not a number", Int2F(1), Int2F(0), 750, Int2F(60), Int2F(1),
              NaN, Fin(25, 2), Zero)>>

EntryLists == UNION {[1..n -> DOMAIN EntryChoices] : n \in 0..MaxEntries}

(***************************************************************************)
(* State                                                                   *)
(***************************************************************************)
VARIABLES attrs, skills, plan, booster_bonus, booster_hours, clone_state,
          pc, idx, booster_remaining, total_time_base, total_time_boosted,
          locals, ledger, error, single

\* main of validate_evemon_export.py: its locals, the position of the loop,
\* the calls of validate_entry made so far and the exit status of the process
VARIABLES entries, xpc, pos, total_errors, total_time, total_old_time,
          total_time_saved, validated, exit_code

training_vars == <<attrs, skills, plan, booster_bonus, booster_hours, clone_state,
                   pc, idx, booster_remaining, total_time_base, total_time_boosted,
                   locals, ledger, error, single>>

export_vars == <<entries, xpc, pos, total_errors, total_time, total_old_time,
                 total_time_saved, validated, exit_code>>

vars == <<training_vars, export_vars>>

inputs == <<attrs, plan, booster_bonus, booster_hours, clone_state>>

\* the loop's local names, unbound before the first iteration
NoLocals ==
    [sp_needed |-> Unset, sp_per_hour_base |-> Unset, sp_per_hour_boosted |-> Unset,
     time_base |-> Unset, time_actual |-> Unset, time_saved |-> Unset]

NoSingle ==
    [status |-> "none", error |-> "none", time_base_hours |-> Unset,
     training_time |-> Unset, time_saved |-> Unset]

\* validate_evemon_export.py is not running
ExportNotRun ==
    /\ entries = << >>
    /\ xpc = "idle"
    /\ pos = 0
    /\ total_errors = Unset
    /\ total_time = Unset
    /\ total_old_time = Unset
    /\ total_time_saved = Unset
    /\ validated = << >>
    /\ exit_code = "none"

\* The arguments of one call. Skill objects are interchangeable, so the first
\* pair of a plan names object 1; an object the plan never names plays no
\* part in the run and is left at DefaultSkill.
Init ==
    /\ \E i \in DOMAIN AttrChoices : attrs = AttrChoices[i]
    /\ plan \in Plans
    /\ plan # << >> => plan[1][1] = 1
    /\ \E f \in [SkillIds -> DOMAIN SkillChoices] :
           skills = [id \in SkillIds |-> SkillChoices[f[id]]]
    /\ \A id \in SkillIds \ UsedIds(plan) : skills[id] = DefaultSkill
    /\ \E i \in DOMAIN BoosterBonusChoices : booster_bonus = BoosterBonusChoices[i]
    /\ \E i \in DOMAIN BoosterHoursChoices : booster_hours = BoosterHoursChoices[i]
    /\ \E i \in DOMAIN CloneStates : clone_state = CloneStates[i]
    /\ pc = "start"
    /\ idx = 0
    /\ booster_remaining = Unset
    /\ total_time_base = Unset
    /\ total_time_boosted = Unset
    /\ locals = NoLocals
    /\ ledger = << >>
    /\ error = "none"
    /\ single = NoSingle
    /\ ExportNotRun

\* validate_single_skill(attrs, skill, target_level, booster_bonus,
\* booster_hours, clone_state) on the pair of a one-element plan, before the
\* plan is run; it mutates nothing
ValidateSingleSkill ==
    /\ pc = "start"
    /\ single.status = "none"
    /\ Len(plan) = 1
    /\ single' = single_result(attrs, skills[plan[1][1]], plan[1][2],
                               booster_bonus, booster_hours, clone_state)
    /\ UNCHANGED <<inputs, skills, pc, idx, booster_remaining, total_time_base,
                   total_time_boosted, locals, ledger, error>>
    /\ UNCHANGED export_vars

\* validate_plan, lines 284-309: the header and the initial assignments
PlanBegin ==
    /\ pc = "start"
    /\ pc' = "loop"
    /\ idx' = 1
    /\ total_time_base' = Zero
    /\ total_time_boosted' = Zero
    /\ booster_remaining' = booster_hours
    /\ UNCHANGED <<inputs, skills, locals, ledger, error, single>>
    /\ UNCHANGED export_vars

\* validate_plan, lines 311-349: one iteration of the loop
PlanItem ==
    /\ pc = "loop"
    /\ idx <= Len(plan)
    /\ LET id == plan[idx][1]
           skill == skills[id]
           target_level == plan[idx][2]
           sp == sp_to_train(skill, target_level)
       IN  IF KeyErrorRaised(skill)
           THEN /\ pc' = "raised"
                /\ error' = "KeyError"
                /\ locals' = [locals EXCEPT !.sp_needed = Int2F(sp)]
                /\ UNCHANGED <<skills, idx, booster_remaining, total_time_base,
                               total_time_boosted, ledger>>
           ELSE LET rate_base == calculate_sp_per_hour(attrs, skill, clone_state)
                    rate_boosted ==
                        calculate_sp_per_hour(make_boosted_attrs(attrs, booster_bonus),
                                              skill, clone_state)
                    r == item_times(sp, rate_base, rate_boosted, booster_bonus,
                                    booster_remaining)
                    err == first_error(<<r.time_base, r.time_actual, r.time_saved>>)
                IN  /\ total_time_base' = accumulate(total_time_base, r.time_base)
                    /\ total_time_boosted' = accumulate(total_time_boosted, r.time_actual)
                    /\ booster_remaining' = r.booster_remaining
                    /\ locals' = [sp_needed |-> Int2F(sp),
                                  sp_per_hour_base |-> Int2F(rate_base),
                                  sp_per_hour_boosted |-> Int2F(rate_boosted),
                                  time_base |-> r.time_base,
                                  time_actual |-> r.time_actual,
                                  time_saved |-> r.time_saved]
                    /\ IF err # "none"
                       THEN /\ pc' = "raised"
                            /\ error' = err
                            /\ UNCHANGED <<skills, idx, ledger>>
                       ELSE /\ ledger' = Append(ledger,
                                   [skill |-> id, from_level |-> skill.current_level,
                                    target_level |-> target_level, sp_needed |-> sp,
                                    time_base |-> r.time_base,
                                    time_actual |-> r.time_actual,
                                    time_saved |-> r.time_saved])
                            /\ skills' = [skills EXCEPT
                                               ![id] = mark_trained(skill, target_level)]
                            /\ idx' = idx + 1
                            /\ UNCHANGED <<pc, error>>
    /\ UNCHANGED <<inputs, single>>
    /\ UNCHANGED export_vars

\* validate_plan, lines 351-353: the TOTAL row
PlanTotal ==
    /\ pc = "loop"
    /\ idx > Len(plan)
    /\ LET err == first_error(<<total_time_base, total_time_boosted,
                                FSub(total_time_base, total_time_boosted)>>)
       IN  IF err # "none"
           THEN pc' = "raised" /\ error' = err
           ELSE pc' = "done" /\ UNCHANGED error
    /\ UNCHANGED <<inputs, skills, idx, booster_remaining, total_time_base,
                   total_time_boosted, locals, ledger, single>>
    /\ UNCHANGED export_vars

Next == ValidateSingleSkill \/ PlanBegin \/ PlanItem \/ PlanTotal

Spec == Init /\ [][Next]_vars

(***************************************************************************)
(* validate_evemon_export.py: main                                         *)
(***************************************************************************)
\* validate_training_time.py is not running
TrainingNotRun ==
    /\ attrs = DefaultAttrs
    /\ skills = [id \in SkillIds |-> DefaultSkill]
    /\ plan = << >>
    /\ booster_bonus = 0
    /\ booster_hours = Zero
    /\ clone_state = "omega"
    /\ pc = "idle"
    /\ idx = 0
    /\ booster_remaining = Unset
    /\ total_time_base = Unset
    /\ total_time_boosted = Unset
    /\ locals = NoLocals
    /\ ledger = << >>
    /\ error = "none"
    /\ single = NoSingle

\* main is entered with the file named; entries is what parse_csv returns
ExportInit ==
    /\ \E l \in EntryLists : entries = [k \in DOMAIN l |-> EntryChoices[l[k]]]
    /\ xpc = "start"
    /\ pos = 0
    /\ total_errors = Unset
    /\ total_time = Unset
    /\ total_old_time = Unset
    /\ total_time_saved = Unset
    /\ validated = << >>
    /\ exit_code = "none"
    /\ TrainingNotRun

\* main, lines 176-201: no entries is an exit with status 1; otherwise the
\* totals are set to 0 and the loop begins
ExportBegin ==
    /\ xpc = "start"
    /\ IF entries = << >>
       THEN /\ xpc' = "exited"
            /\ exit_code' = 1
            /\ UNCHANGED <<pos, total_errors, total_time, total_old_time,
                           total_time_saved>>
       ELSE /\ xpc' = "loop"
            /\ pos' = 1
            /\ total_errors' = 0
            /\ total_time' = Zero
            /\ total_old_time' = Zero
            /\ total_time_saved' = Zero
            /\ UNCHANGED exit_code
    /\ UNCHANGED <<entries, validated>>
    /\ UNCHANGED training_vars

\* main, lines 203-223: one iteration of the loop. The row is printed at
\* lines 217-218, before the errors are counted at lines 220-221; an
\* exception of format_time ends the process there, with status 1.
ExportEntry ==
    /\ xpc = "loop"
    /\ pos <= Len(entries)
    /\ LET entry == entries[pos]
           errors == validate_entry(entry)
           err == first_export_error(
                      (IF FGt(entry.time_saved_hours, Zero)
                       THEN <<entry.time_saved_hours>> ELSE << >>)
                      \o (IF FGt(entry.old_training_time_hours, Zero)
                          THEN <<entry.old_training_time_hours>> ELSE << >>)
                      \o <<entry.training_time_hours>>)
       IN  /\ validated' = Append(validated, [entry |-> pos, errors |-> Len(errors)])
           /\ total_time' = FAdd(total_time, entry.training_time_hours)
           /\ total_old_time' = FAdd(total_old_time, entry.old_training_time_hours)
           /\ total_time_saved' = IF FGt(entry.time_saved_hours, Zero)
                                  THEN FAdd(total_time_saved, entry.time_saved_hours)
                                  ELSE total_time_saved
           /\ IF err # "none"
              THEN /\ xpc' = "raised"
                   /\ exit_code' = 1
                   /\ UNCHANGED <<pos, total_errors>>
              ELSE /\ total_errors' = count_errors(total_errors, errors)
                   /\ pos' = pos + 1
                   /\ UNCHANGED <<xpc, exit_code>>
    /\ UNCHANGED entries
    /\ UNCHANGED training_vars

\* main, lines 225-241: the summary and the exit
ExportSummary ==
    /\ xpc = "loop"
    /\ pos > Len(entries)
    /\ LET err == first_export_error(
                      <<total_time>>
                      \o (IF FGt(total_old_time, Zero)
                          THEN <<total_old_time, total_time_saved>> ELSE << >>))
       IN  IF err # "none"
           THEN xpc' = "raised" /\ exit_code' = 1
           ELSE xpc' = "exited" /\ exit_code' = (IF total_errors = 0 THEN 0 ELSE 1)
    /\ UNCHANGED <<entries, pos, total_errors, total_time, total_old_time,
                   total_time_saved, validated>>
    /\ UNCHANGED training_vars

ExportNext == ExportBegin \/ ExportEntry \/ ExportSummary

ExportSpec == ExportInit /\ [][ExportNext]_vars

(***************************************************************************)
(* Vocabulary of the properties                                            *)
(***************************************************************************)
CurSkill == skills[plan[idx][1]]

CurTarget == plan[idx][2]

CurSp == sp_to_train(CurSkill, CurTarget)

CurBaseRate == calculate_sp_per_hour(attrs, CurSkill, clone_state)

CurBoostedRate ==
    calculate_sp_per_hour(make_boosted_attrs(attrs, booster_bonus), CurSkill, clone_state)

\* the loop is about to run lines 312-349 on a pair whose rates can be computed
AtItem == pc = "loop" /\ idx <= Len(plan) /\ ~KeyErrorRaised(CurSkill)

\* the step printed a row of the table
RowEmitted == Len(ledger') = Len(ledger) + 1

LastRow == ledger[Len(ledger)]

\* duration(quantity, rate) of the specification, quantity a real
duration(q, rate) == IF rate <= 0 THEN Inf ELSE FDiv(q, Int2F(rate))

(***************************************************************************)
(* C1. Across a run of validate_plan the values booster_remaining takes    *)
(* after each item are non-increasing and never negative, and once it is 0 *)
(* it is never positive again; items with nothing to train and items with  *)
(* rates <= 0 included.                                                    *)
(***************************************************************************)
C1_BoosterDepletion ==
    [][AtItem => /\ FLe(booster_remaining', booster_remaining)
                 /\ FGe(booster_remaining', Zero)
                 /\ (booster_remaining = Zero => booster_remaining' = Zero)]_vars

(***************************************************************************)
(* C2. For every booster strength >= 0 and every Attributes value, each    *)
(* item's boosted rate is >= its base rate and the time_saved of every row *)
(* is >= 0.                                                                *)
(***************************************************************************)
C2_BoosterNeverSlower ==
    /\ locals.sp_per_hour_boosted # Unset =>
           FGe(locals.sp_per_hour_boosted, locals.sp_per_hour_base)
    /\ \A i \in 1..Len(ledger) : FGe(ledger[i].time_saved, Zero)

(***************************************************************************)
(* C3. Split case: an item reached with booster_remaining > 0 and          *)
(* booster_remaining * boosted_rate < quantity has actual_duration =       *)
(* booster_remaining + duration(quantity - booster_remaining *             *)
(* boosted_rate, base_rate), and booster_remaining is 0 after it.          *)
(* C3_SplitCase is the statement as claimed; C3_SplitCaseWithStrength adds *)
(* the guard of line 319, booster strength > 0.                            *)
(***************************************************************************)
SplitReached ==
    /\ AtItem
    /\ FGt(booster_remaining, Zero)
    /\ FLt(FMul(booster_remaining, Int2F(CurBoostedRate)), Int2F(CurSp))

SplitOutcome ==
    /\ locals'.time_actual =
           FAdd(booster_remaining,
                duration(FSub(Int2F(CurSp),
                              FMul(booster_remaining, Int2F(CurBoostedRate))),
                         CurBaseRate))
    /\ booster_remaining' = Zero

C3_SplitCase == [][SplitReached => SplitOutcome]_vars

C3_SplitCaseWithStrength == [][SplitReached /\ booster_bonus > 0 => SplitOutcome]_vars

\* 750 SP at 60/h base and 150/h boosted with 3 h of booster: 450 SP boosted,
\* 300 SP in 5 h at base rate, 8 h in all, 4.5 h saved, no booster left
C3_Witness ==
    /\ pc = "loop" /\ idx = 2 /\ Len(ledger) = 1
    /\ booster_bonus > 0 /\ booster_hours = Int2F(3)
    /\ ledger[1].sp_needed = 750
    /\ locals.sp_per_hour_base = Int2F(60)
    /\ locals.sp_per_hour_boosted = Int2F(150)
    /\ ledger[1].time_actual = Int2F(8)
    /\ ledger[1].time_saved = Fin(9, 2)
    /\ booster_remaining = Zero

C5_ZeroQuantity ==
    [][AtItem /\ CurSp = 0
       => /\ RowEmitted
          /\ LastRow'.time_base = Zero
          /\ LastRow'.time_actual = Zero
          /\ LastRow'.time_saved = Zero
          /\ booster_remaining' = booster_remaining]_vars

(***************************************************************************)
(* C6. An item with quantity > 0 whose base rate and boosted rate are both *)
(* <= 0 gets the infinite sentinel as base_duration and as                 *)
(* actual_duration and time_saved = 0, with or without an active booster,  *)
(* and no exception is raised.                                             *)
(***************************************************************************)
C6_DegenerateRates ==
    [][AtItem /\ CurSp > 0 /\ CurBaseRate <= 0 /\ CurBoostedRate <= 0
       => /\ locals'.time_base = Inf
          /\ locals'.time_actual = Inf
          /\ locals'.time_saved = Zero
          /\ pc' # "raised"]_vars

(***************************************************************************)
(* C7. Single-item mode against the scheduler on a one-element plan: the   *)
(* total training time and the time saved validate_single_skill computes   *)
(* equal the actual_duration and time_saved of the row validate_plan       *)
(* prints for the plan of that one pair.                                   *)
(* C7_SingleIsOneElementPlan is the statement as claimed. What holds is    *)
(* C7_SingleAgreesWhereCovered: the totals agree when the strength is 0 or *)
(* booster_hours > 0, and the savings agree when the strength is > 0,      *)
(* booster_hours > 0 and the booster covers the whole item.                *)
(***************************************************************************)
\* both functions were called on the same arguments and the plan printed its row
BothRan == single.status # "none" /\ Len(plan) = 1 /\ Len(ledger) = 1

\* the training time validate_single_skill prints last: with a booster the
\* split total or the full-booster time, without one the base time
SingleTotal ==
    IF booster_bonus > 0 THEN single.training_time ELSE single.time_base_hours

C7_SingleIsOneElementPlan ==
    BothRan =>
        /\ SingleTotal # Unset => ledger[1].time_actual = SingleTotal
        /\ single.time_saved # Unset => ledger[1].time_saved = single.time_saved

BoosterCoversItem ==
    FGe(FMul(booster_hours, locals.sp_per_hour_boosted), locals.sp_needed)

C7_SingleAgreesWhereCovered ==
    BothRan =>
        /\ (booster_bonus = 0 \/ FGt(booster_hours, Zero)) /\ SingleTotal # Unset
           => ledger[1].time_actual = SingleTotal
        /\ booster_bonus > 0 /\ FGt(booster_hours, Zero) /\ BoosterCoversItem
              /\ single.time_saved # Unset
           => ledger[1].time_saved = single.time_saved

\* 750 SP at 150/h boosted with 5 h of booster: both report 5 h and 7.5 h saved
C7_Witness ==
    /\ BothRan /\ single.status = "ok" /\ pc = "done"
    /\ booster_bonus > 0 /\ booster_hours = Int2F(5)
    /\ ledger[1].sp_needed = 750
    /\ single.training_time = Int2F(5) /\ ledger[1].time_actual = Int2F(5)
    /\ single.time_saved = Fin(15, 2) /\ ledger[1].time_saved = Fin(15, 2)

(***************************************************************************)
(* C8. A plan with a malformed work item (rank <= 0, a primary or          *)
(* secondary attribute name outside the five, a target level outside       *)
(* [0,5]) is refused before any item is simulated: no row is printed, no   *)
(* work item is mutated, no booster time is consumed, and the run does not *)
(* complete.                                                               *)
(***************************************************************************)
Malformed(skill, target_level) ==
    \/ skill.rank <= 0
    \/ skill.primary_attr \notin AttrNames
    \/ skill.secondary_attr \notin AttrNames
    \/ target_level \notin 0..5

PlanMalformed == \E i \in DOMAIN plan : Malformed(skills[plan[i][1]], plan[i][2])

C8_MalformedRefusedFirst ==
    PlanMalformed =>
        /\ ledger = << >>
        /\ idx <= 1
        /\ booster_remaining \in {Unset, booster_hours}
        /\ pc # "done"

(***************************************************************************)
(* C9. Once booster_remaining is 0 (or the run has no booster: strength 0) *)
(* every later item is trained at base rate: its actual_duration is its    *)
(* base_duration, its time_saved is 0, and booster_remaining stays as it   *)
(* is, whatever the booster strength.                                      *)
(***************************************************************************)
C9_BaseRateAfterDepletion ==
    [][AtItem /\ (booster_remaining = Zero \/ booster_bonus = 0)
       => /\ locals'.time_actual = locals'.time_base
          /\ locals'.time_saved = Zero
          /\ booster_remaining' = booster_remaining]_vars

\* the booster ran out inside the first item; the second, 4992 SP, took its
\* base time
C9_Witness ==
    /\ Len(ledger) = 2
    /\ booster_bonus > 0 /\ FGt(booster_hours, Zero)
    /\ FGt(ledger[1].time_saved, Zero)
    /\ FLt(ledger[1].time_actual, ledger[1].time_base)
    /\ booster_remaining = Zero
    /\ ledger[2].sp_needed = 4992
    /\ IsFinite(ledger[2].time_base)
    /\ ledger[2].time_actual = ledger[2].time_base
    /\ ledger[2].time_saved = Zero

(***************************************************************************)
(* C10. At the end of a run whose durations are all finite the base total  *)
(* is the sum of the rows' base_duration, the actual total the sum of      *)
(* their actual_duration, and the total saved (base total - actual total)  *)
(* the sum of their time_saved.                                            *)
(***************************************************************************)
RECURSIVE SumBase(_)
SumBase(n) == IF n = 0 THEN Zero ELSE FAdd(SumBase(n - 1), ledger[n].time_base)

RECURSIVE SumActual(_)
SumActual(n) == IF n = 0 THEN Zero ELSE FAdd(SumActual(n - 1), ledger[n].time_actual)

RECURSIVE SumSaved(_)
SumSaved(n) == IF n = 0 THEN Zero ELSE FAdd(SumSaved(n - 1), ledger[n].time_saved)

AllFinite ==
    \A i \in 1..Len(ledger) :
        IsFinite(ledger[i].time_base) /\ IsFinite(ledger[i].time_actual)

C10_TotalsAreSums ==
    pc = "done" /\ AllFinite =>
        /\ Len(ledger) = Len(plan)
        /\ total_time_base = SumBase(Len(ledger))
        /\ total_time_boosted = SumActual(Len(ledger))
        /\ FSub(total_time_base, total_time_boosted) = SumSaved(Len(ledger))

\* two rows with work in them, the first one shortened by the booster
C10_Witness ==
    /\ pc = "done" /\ Len(ledger) = 2 /\ AllFinite
    /\ FGt(ledger[1].time_saved, Zero)
    /\ ledger[2].sp_needed > 0
    /\ FGt(FSub(total_time_base, total_time_boosted), Zero)

(***************************************************************************)
(* C11. Once validate_plan has processed a pair (skill, target_level), the *)
(* skill is at current_level = target_level with current_sp = 0. So at     *)
(* every point of the run, and at its end, each skill whose pairs have     *)
(* been processed sits at the target level of its last processed pair,     *)
(* with no partial quantity, and sp_to_train(skill, that target) is 0.     *)
(***************************************************************************)
LastProcessed(i) ==
    /\ i \in 1..(idx - 1)
    /\ \A j \in (i + 1)..(idx - 1) : plan[j][1] # plan[i][1]

C11_ProgressAtTarget ==
    \A i \in DOMAIN plan :
        LastProcessed(i) =>
            LET skill == skills[plan[i][1]]
            IN  /\ skill.current_level = plan[i][2]
                /\ skill.current_sp = 0
                /\ sp_to_train(skill, plan[i][2]) = 0

\* a run that ended after charging a skill and then processing it again
\* for another target level
C11_Witness ==
    /\ pc = "done"
    /\ Len(ledger) = 2
    /\ ledger[1].skill = ledger[2].skill
    /\ ledger[1].sp_needed > 0
    /\ ledger[2].target_level # ledger[1].target_level
    /\ LastProcessed(2)

(***************************************************************************)
(* C12. In the loop of the export validator's main, a mismatch found in    *)
(* one entry never stops the processing of the others: when the process    *)
(* ends, every parsed entry has been validated exactly once, in order; the *)
(* error count is the sum over all the entries of the number of mismatches *)
(* validate_entry returns; and the process fails only after the last       *)
(* entry, and exactly when that count is not 0.                            *)
(***************************************************************************)
ExportEnded == xpc \in {"exited", "raised"} /\ entries # << >>

RECURSIVE SumMismatches(_)
SumMismatches(n) ==
    IF n = 0 THEN 0 ELSE SumMismatches(n - 1) + Len(validate_entry(entries[n]))

C12_MismatchNeverHalts ==
    ExportEnded =>
        /\ Len(validated) = Len(entries)
        /\ \A k \in DOMAIN validated : validated[k].entry = k
        /\ pos = Len(entries) + 1
        /\ total_errors = SumMismatches(Len(entries))
        /\ (exit_code = 1) <=> (total_errors # 0)

(***************************************************************************)
(* C13. Throughout a run of validate_plan no skill's current_level ever    *)
(* decreases; in particular a pair whose target_level is below the skill's *)
(* current level leaves the skill's level as it is.                        *)
(***************************************************************************)
C13_LevelNeverDecreases ==
    [][\A id \in SkillIds :
           skills'[id].current_level >= skills[id].current_level]_vars

(***************************************************************************)
(* C14. When one skill occurs several times in a plan with strictly        *)
(* increasing target levels, the quantities validate_plan charges for      *)
(* those occurrences add up to what sp_to_train charges for going from the *)
(* skill's initial (current_level, current_sp) straight to the last        *)
(* target: nothing is charged twice or dropped at a level boundary.        *)
(* Stated for skills whose initial current_sp is less than the cost of the *)
(* next level, as a skill in training has.                                 *)
(***************************************************************************)
\* the skill object as the caller passed it: name and rank are never assigned
InitialSkill(id) ==
    SkillChoices[CHOOSE c \in DOMAIN SkillChoices :
                     SkillChoices[c].name = skills[id].name]

Occurrences(id) == {i \in DOMAIN ledger : ledger[i].skill = id}

StrictlyIncreasing(id) ==
    \A i, j \in Occurrences(id) :
        i < j => ledger[i].target_level < ledger[j].target_level

RECURSIVE Charged(_, _)
Charged(id, n) ==
    IF n = 0 THEN 0
    ELSE Charged(id, n - 1) + (IF ledger[n].skill = id THEN ledger[n].sp_needed ELSE 0)

LastTarget(id) ==
    ledger[CHOOSE i \in Occurrences(id) : \A j \in Occurrences(id) : j <= i].target_level

InTraining(skill) ==
    skill.current_sp < sp_for_level(skill, skill.current_level + 1)

C14_NoDoubleCharge ==
    \A id \in SkillIds :
        /\ Cardinality(Occurrences(id)) >= 2
        /\ StrictlyIncreasing(id)
        /\ InTraining(InitialSkill(id))
        => Charged(id, Len(ledger)) = sp_to_train(InitialSkill(id), LastTarget(id))

====
